---- MODULE Spec2Model ----
(***************************************************************************)
(* Model of the fact-resolution and model-assembly pipeline of main.py:   *)
(* load_yaml, load_facts_from_yaml, get_facts_by_names,                    *)
(* generate_dynamic_semantic_model, generate_semantic_model_from_snowflake *)
(* and the helpers they call.                                              *)
(*                                                                         *)
(* Python objects live in `heap`: every document produced by yaml.safe_load*)
(* or copy.deepcopy is one cell, holding a tree of tagged values.  A value *)
(* of kind "ref" is a Python reference into another cell (address, path), *)
(* so aliasing between a returned model, the loaded template and the       *)
(* loaded catalog is visible.                                              *)
(***************************************************************************)
EXTENDS Integers, Sequences, FiniteSets, TLC

VARIABLES catalog, heap, calls, effects

vars == <<catalog, heap, calls, effects>>

(***************************************************************************)
(* Bounds of the model.                                                    *)
(***************************************************************************)
MaxCatalog == 2
MaxNames == 2

(***************************************************************************)
(* Parsed YAML values (what yaml.safe_load returns), tagged by kind.       *)
(***************************************************************************)
NoneV == [kind |-> "none"]
Scalar(s) == [kind |-> "scalar", v |-> s]
SeqV(s) == [kind |-> "seq", items |-> s]
MapV(f) == [kind |-> "map", m |-> f]
Ref(a, p) == [kind |-> "ref", a |-> a, path |-> p]

EmptyMap == MapV([k \in {} |-> NoneV])

FactRec(n, e) == MapV([name |-> Scalar(n), expr |-> Scalar(e)])

\* dict assignment d[k] = v
Put(f, k, v) == [j \in DOMAIN f \cup {k} |-> IF j = k THEN v ELSE f[j]]

BoundedSeq(S, n) == UNION {[1..k -> S] : k \in 0..n}

\* Names a caller may request; "M" never names a catalog record.
Requested == {"A", "B", "M"}

\* Catalog entries: two records named "A", one named "B", and a list item
\* that is not a mapping.
Entries == {FactRec("A", "e1"), FactRec("A", "e2"), FactRec("B", "e3"), Scalar("A")}

\* A fact the template itself lists.
TemplateFact == FactRec("Z", "e9")

Table(n, withFacts, fs) ==
    MapV(IF withFacts THEN [name |-> Scalar(n), facts |-> SeqV(fs)]
                      ELSE [name |-> Scalar(n)])

(***************************************************************************)
(* The file system: what open() and yaml.safe_load find at each path.      *)
(* The catalog files all hold the records of `catalog`, in the shapes      *)
(* load_facts_from_yaml dispatches on.                                     *)
(***************************************************************************)
Ok(d) == [status |-> "ok", doc |-> d]

File(path) ==
    CASE path = "facts.yaml" -> Ok(SeqV(catalog))
      [] path = "facts_wrapped.yaml" -> Ok(MapV([facts |-> SeqV(catalog)]))
      [] path = "facts_single.yaml" ->
            Ok(MapV([facts |-> IF catalog = <<>> THEN NoneV ELSE catalog[1]]))
      [] path = "facts_other.yaml" -> Ok(MapV([other |-> SeqV(catalog)]))
      [] path = "facts_scalar.yaml" -> Ok(Scalar("text"))
      [] path = "empty.yaml" -> Ok(NoneV)
      [] path = "bad.yaml" -> [status |-> "bad", doc |-> NoneV]
      [] path = "unreadable.yaml" -> [status |-> "unreadable", doc |-> NoneV]
      [] path = "base_emptymap.yaml" -> Ok(EmptyMap)
      [] path = "base_notables.yaml" -> Ok(MapV([name |-> Scalar("model")]))
      [] path = "base_tables0.yaml" ->
            Ok(MapV([name |-> Scalar("model"), tables |-> SeqV(<<>>)]))
      [] path = "base_nofacts.yaml" ->
            Ok(MapV([name |-> Scalar("model"),
                     tables |-> SeqV(<<Table("t1", FALSE, <<>>)>>)]))
      [] path = "base_facts0.yaml" ->
            Ok(MapV([name |-> Scalar("model"),
                     tables |-> SeqV(<<Table("t1", TRUE, <<>>)>>)]))
      [] path = "base.yaml" ->
            Ok(MapV([name |-> Scalar("model"),
                     tables |-> SeqV(<<Table("t1", TRUE, <<TemplateFact>>),
                                       Table("t2", TRUE, <<TemplateFact>>)>>),
                     verified_queries |-> SeqV(<<Scalar("q")>>)]))
      [] path = "base_badtable.yaml" ->
            Ok(MapV([name |-> Scalar("model"), tables |-> SeqV(<<Scalar("t1")>>)]))
      [] OTHER -> [status |-> "missing", doc |-> NoneV]

FactsPaths == {"facts.yaml", "facts_wrapped.yaml", "facts_single.yaml",
               "facts_other.yaml", "facts_scalar.yaml", "empty.yaml", "bad.yaml",
               "unreadable.yaml", "missing.yaml"}

BasePaths == {"base.yaml", "base_facts0.yaml", "base_nofacts.yaml",
              "base_tables0.yaml", "base_notables.yaml", "base_emptymap.yaml",
              "base_badtable.yaml", "empty.yaml", "bad.yaml", "unreadable.yaml",
              "missing.yaml"}

(***************************************************************************)
(* Heap access.                                                            *)
(***************************************************************************)
RECURSIVE At(_, _)
At(v, p) ==
    IF p = <<>> THEN v
    ELSE At(IF v.kind = "map" THEN v.m[Head(p)] ELSE v.items[Head(p)], Tail(p))

Deref(h, r) == At(h[r.a], r.path)

\* The value a tree denotes, references followed (structural equality, ==).
RECURSIVE Val(_, _)
Val(h, v) ==
    CASE v.kind = "ref" -> Val(h, Deref(h, v))
      [] v.kind = "seq" -> SeqV([i \in 1..Len(v.items) |-> Val(h, v.items[i])])
      [] v.kind = "map" -> MapV([k \in DOMAIN v.m |-> Val(h, v.m[k])])
      [] OTHER -> v

\* The cells a tree refers to.
RECURSIVE Addrs(_, _)
Addrs(h, v) ==
    CASE v.kind = "ref" -> {v.a} \cup Addrs(h, Deref(h, v))
      [] v.kind = "seq" -> UNION {Addrs(h, v.items[i]) : i \in 1..Len(v.items)}
      [] v.kind = "map" -> UNION {Addrs(h, v.m[k]) : k \in DOMAIN v.m}
      [] OTHER -> {}

\* Mutant of Falsy: `x is None` in place of `not x`.
Falsy_NoneOnly(v) == v.kind = "none"

\* Python truthiness: `not x`
Falsy(v) ==
    \/ v.kind = "none"
    \/ v.kind = "map" /\ DOMAIN v.m = {}
    \/ v.kind = "seq" /\ v.items = <<>>
    \/ v.kind = "scalar" /\ v.v = ""

\* Mutant of load_yaml: only FileNotFoundError is caught, a parse error
\* propagates.
load_yaml_ParseRaises(yaml_path) ==
    CASE File(yaml_path).status = "ok" -> [exc |-> "none", val |-> File(yaml_path).doc]
      [] File(yaml_path).status = "missing" -> [exc |-> "none", val |-> EmptyMap]
      [] File(yaml_path).status = "bad" -> [exc |-> "YAMLError", val |-> NoneV]
      [] OTHER -> [exc |-> "OSError", val |-> NoneV]

(***************************************************************************)
(* load_yaml: a fresh object per call; YAMLError and FileNotFoundError     *)
(* give {}, any other error of open()/read propagates.                     *)
(***************************************************************************)
load_yaml(yaml_path) ==
    LET f == File(yaml_path) IN
    CASE f.status = "ok" -> [exc |-> "none", val |-> f.doc]
      [] f.status = "bad" -> [exc |-> "none", val |-> EmptyMap]
      [] f.status = "missing" -> [exc |-> "none", val |-> EmptyMap]
      [] OTHER -> [exc |-> "OSError", val |-> NoneV]

(***************************************************************************)
(* load_facts_from_yaml: the loaded document goes to a new heap cell; the  *)
(* returned list is given as the references to its elements.               *)
(***************************************************************************)
\* Mutant of FactsOf: the value under `facts` is always wrapped in a list.
FactsOf_AlwaysWrap(h, ld) ==
    IF ld.exc # "none" THEN [heap |-> h, exc |-> "none", all |-> <<>>]
    ELSE IF ld.val.kind = "seq"
         THEN [heap |-> Append(h, ld.val), exc |-> "none",
               all |-> [i \in 1..Len(ld.val.items) |-> Ref(Len(h) + 1, <<i>>)]]
    ELSE IF ld.val.kind = "map" /\ "facts" \in DOMAIN ld.val.m
         THEN [heap |-> Append(h, ld.val), exc |-> "none",
               all |-> <<Ref(Len(h) + 1, <<"facts">>)>>]
    ELSE [heap |-> Append(h, ld.val), exc |-> "none", all |-> <<>>]

\* Mutant of FactsOf: a `facts` value that is not a list gives no facts.
FactsOf_NoPromotion(h, ld) ==
    IF ld.exc # "none" THEN [heap |-> h, exc |-> "none", all |-> <<>>]
    ELSE IF ld.val.kind = "seq"
         THEN [heap |-> Append(h, ld.val), exc |-> "none",
               all |-> [i \in 1..Len(ld.val.items) |-> Ref(Len(h) + 1, <<i>>)]]
    ELSE IF ld.val.kind = "map" /\ "facts" \in DOMAIN ld.val.m
                /\ ld.val.m["facts"].kind = "seq"
         THEN [heap |-> Append(h, ld.val), exc |-> "none",
               all |-> [i \in 1..Len(ld.val.m["facts"].items) |->
                           Ref(Len(h) + 1, <<"facts", i>>)]]
    ELSE [heap |-> Append(h, ld.val), exc |-> "none", all |-> <<>>]

\* Mutant of FactsOf: no try/except, an error of load_yaml propagates.
FactsOf_Propagate(h, ld) ==
    IF ld.exc # "none" THEN [heap |-> h, exc |-> ld.exc, all |-> <<>>]
    ELSE IF ld.val.kind = "seq"
         THEN [heap |-> Append(h, ld.val), exc |-> "none",
               all |-> [i \in 1..Len(ld.val.items) |-> Ref(Len(h) + 1, <<i>>)]]
    ELSE IF ld.val.kind = "map" /\ "facts" \in DOMAIN ld.val.m
         THEN IF ld.val.m["facts"].kind = "seq"
              THEN [heap |-> Append(h, ld.val), exc |-> "none",
                    all |-> [i \in 1..Len(ld.val.m["facts"].items) |->
                                Ref(Len(h) + 1, <<"facts", i>>)]]
              ELSE [heap |-> Append(h, ld.val), exc |-> "none",
                    all |-> <<Ref(Len(h) + 1, <<"facts">>)>>]
    ELSE [heap |-> Append(h, ld.val), exc |-> "none", all |-> <<>>]

\* lines 484-503; exc is "none" on every path: the except clause returns [].
FactsOf(h, ld) ==
    IF ld.exc # "none" THEN [heap |-> h, exc |-> "none", all |-> <<>>]
    ELSE IF ld.val.kind = "seq"
         THEN [heap |-> Append(h, ld.val), exc |-> "none",
               all |-> [i \in 1..Len(ld.val.items) |-> Ref(Len(h) + 1, <<i>>)]]
    ELSE IF ld.val.kind = "map" /\ "facts" \in DOMAIN ld.val.m
         THEN IF ld.val.m["facts"].kind = "seq"
              THEN [heap |-> Append(h, ld.val), exc |-> "none",
                    all |-> [i \in 1..Len(ld.val.m["facts"].items) |->
                                Ref(Len(h) + 1, <<"facts", i>>)]]
              ELSE [heap |-> Append(h, ld.val), exc |-> "none",
                    all |-> <<Ref(Len(h) + 1, <<"facts">>)>>]
    ELSE [heap |-> Append(h, ld.val), exc |-> "none", all |-> <<>>]

load_facts_from_yaml(h, facts_path) == FactsOf(h, load_yaml(facts_path))

(***************************************************************************)
(* get_facts_by_names: for each requested name, the first element of the   *)
(* catalog that is a mapping whose `name` equals it.                       *)
(***************************************************************************)
IsNamed(fact, fact_name) ==
    /\ fact.kind = "map"
    /\ "name" \in DOMAIN fact.m
    /\ fact.m["name"] = Scalar(fact_name)

\* Mutant of FirstMatch: the loop has no `break`, the last match stays.
RECURSIVE FirstMatch_Last(_, _, _, _)
FirstMatch_Last(h, all_facts, fact_name, i) ==
    IF i > Len(all_facts) THEN 0
    ELSE IF FirstMatch_Last(h, all_facts, fact_name, i + 1) # 0
         THEN FirstMatch_Last(h, all_facts, fact_name, i + 1)
    ELSE IF IsNamed(Deref(h, all_facts[i]), fact_name) THEN i
    ELSE 0

\* Index of the first match in catalog order, 0 when there is none.
RECURSIVE FirstMatch(_, _, _, _)
FirstMatch(h, all_facts, fact_name, i) ==
    IF i > Len(all_facts) THEN 0
    ELSE IF IsNamed(Deref(h, all_facts[i]), fact_name) THEN i
    ELSE FirstMatch(h, all_facts, fact_name, i + 1)

\* `if matching_fact:` appends the match when it is truthy.
Picked(h, all_facts, i) ==
    IF i # 0 /\ ~Falsy(Deref(h, all_facts[i])) THEN <<all_facts[i]>> ELSE <<>>

\* Mutants of Select.  CatalogOrder: the catalog is filtered by the requested
\* names.  StopAtMissing: a name that is not found ends the loop.  Dedup: a
\* name already seen is not resolved again.
RECURSIVE Select_CatalogOrder(_, _, _)
Select_CatalogOrder(h, all_facts, fact_names) ==
    IF all_facts = <<>> THEN <<>>
    ELSE (IF \E i \in 1..Len(fact_names) :
                IsNamed(Deref(h, Head(all_facts)), fact_names[i])
          THEN <<Head(all_facts)>> ELSE <<>>)
         \o Select_CatalogOrder(h, Tail(all_facts), fact_names)

RECURSIVE Select_StopAtMissing(_, _, _)
Select_StopAtMissing(h, all_facts, fact_names) ==
    IF fact_names = <<>> THEN <<>>
    ELSE IF FirstMatch(h, all_facts, Head(fact_names), 1) = 0 THEN <<>>
    ELSE <<all_facts[FirstMatch(h, all_facts, Head(fact_names), 1)]>>
         \o Select_StopAtMissing(h, all_facts, Tail(fact_names))

RECURSIVE Select_Dedup(_, _, _)
Select_Dedup(h, all_facts, fact_names) ==
    IF fact_names = <<>> THEN <<>>
    ELSE Select_Dedup(h, all_facts, SubSeq(fact_names, 1, Len(fact_names) - 1))
         \o (IF \E i \in 1..(Len(fact_names) - 1) :
                   fact_names[i] = fact_names[Len(fact_names)]
             THEN <<>>
             ELSE Picked(h, all_facts,
                         FirstMatch(h, all_facts, fact_names[Len(fact_names)], 1)))

RECURSIVE Select(_, _, _)
Select(h, all_facts, fact_names) ==
    IF fact_names = <<>> THEN <<>>
    ELSE Picked(h, all_facts, FirstMatch(h, all_facts, Head(fact_names), 1))
         \o Select(h, all_facts, Tail(fact_names))

SelectFrom(ld, fact_names) ==
    [heap |-> ld.heap, selected |-> Select(ld.heap, ld.all, fact_names)]

get_facts_by_names(h, fact_names, facts_path) ==
    SelectFrom(load_facts_from_yaml(h, facts_path), fact_names)

(***************************************************************************)
(* File names and paths.  A name is base, time stamp and extension; the    *)
(* stamp is <<second>>, and <<>> for a name the caller chose.              *)
(***************************************************************************)
FileName(base, stamp, ext) == [base |-> base, stamp |-> stamp, ext |-> ext]
PathOf(dir, name) == [dir |-> dir, name |-> name]

\* the path a caller passes as a string
AsPath(s) == PathOf("", FileName(s, <<>>, ""))

(***************************************************************************)
(* yaml.dump(data, default_flow_style=False, sort_keys=False, indent=2):   *)
(* what is emitted is the tree of the document with the keys of every      *)
(* mapping in the order the dict holds them.  KeyOrder is that order for   *)
(* the documents of the model: the order of the keys in the files, a key   *)
(* assigned later coming after the keys already there.                     *)
(***************************************************************************)
KeyOrder == <<"name", "expr", "tables", "facts", "verified_queries", "other">>

Alphabetical == <<"expr", "facts", "name", "other", "tables", "verified_queries">>

KeysIn(order, S) == SelectSeq(order, LAMBDA k : k \in S)

RECURSIVE Emit(_, _)
Emit(order, v) ==
    CASE v.kind = "map" ->
            [kind |-> "mapping",
             pairs |-> [i \in 1..Len(KeysIn(order, DOMAIN v.m)) |->
                          [key |-> KeysIn(order, DOMAIN v.m)[i],
                           val |-> Emit(order, v.m[KeysIn(order, DOMAIN v.m)[i]])]]]
      [] v.kind = "seq" ->
            [kind |-> "sequence",
             items |-> [i \in 1..Len(v.items) |-> Emit(order, v.items[i])]]
      [] OTHER -> v

\* Mutant of yaml_dump: sort_keys left at its default, keys alphabetized.
yaml_dump_Sorted(v) == Emit(Alphabetical, v)

yaml_dump(v) == Emit(KeyOrder, v)

\* The YAML text of a document: the document it parses back to, and what
\* was emitted.
Text(v) == [kind |-> "text", doc |-> v, emitted |-> yaml_dump(v)]

(***************************************************************************)
(* save_yaml_file: yaml.dump of the document to output_path; every error   *)
(* of open() or of the dump is caught and only printed.  The result is the *)
(* write attempt it leaves behind.                                         *)
(***************************************************************************)
save_yaml_file(h, data, output_path, ok) ==
    <<[op |-> "write", path |-> output_path, data |-> Val(h, h[data]),
       emitted |-> yaml_dump(Val(h, h[data])), ok |-> ok]>>

\* Mutant of deepcopy: no copy, the same object.
deepcopy_Alias(h, a) == [heap |-> h, addr |-> a]

(***************************************************************************)
(* copy.deepcopy: a new cell holding an independent copy of the tree.      *)
(***************************************************************************)
deepcopy(h, a) == [heap |-> Append(h, Val(h, h[a])), addr |-> Len(h) + 1]

\* Mutant of TablesTest: len(dynamic_model['tables']) without the `in` test.
TablesTest_NoInTest(doc) ==
    IF ~(doc.kind = "map" /\ "tables" \in DOMAIN doc.m)
    THEN [exc |-> "KeyError", found |-> FALSE]
    ELSE [exc |-> "none",
          found |-> doc.m["tables"].kind = "seq" /\ Len(doc.m["tables"].items) > 0]

\* 'tables' in dynamic_model and len(dynamic_model['tables']) > 0.
\* exc # "none" when len() itself raises.
TablesTest(doc) ==
    IF ~(doc.kind = "map" /\ "tables" \in DOMAIN doc.m)
    THEN [exc |-> "none", found |-> FALSE]
    ELSE LET t == doc.m["tables"] IN
         CASE t.kind = "seq" -> [exc |-> "none", found |-> Len(t.items) > 0]
           [] t.kind = "map" -> [exc |-> "none", found |-> DOMAIN t.m # {}]
           [] OTHER -> [exc |-> "TypeError", found |-> FALSE]

\* Mutant of SetFacts: dynamic_model['tables'][0] = {'facts': facts}.
SetFacts_ReplaceTable(doc, facts) ==
    IF doc.m["tables"].kind # "seq" THEN [exc |-> "KeyError", doc |-> doc]
    ELSE [exc |-> "none",
          doc |-> MapV([doc.m EXCEPT !["tables"] =
                    SeqV([@.items EXCEPT ![1] = MapV([facts |-> SeqV(facts)])])])]

\* dynamic_model['tables'][0]['facts'] = facts
\* exc # "none" when tables[0] does not exist or is not a mapping.
SetFacts(doc, facts) ==
    LET t == doc.m["tables"] IN
    IF t.kind # "seq" THEN [exc |-> "KeyError", doc |-> doc]
    ELSE IF t.items[1].kind # "map" THEN [exc |-> "TypeError", doc |-> doc]
    ELSE [exc |-> "none",
          doc |-> MapV([doc.m EXCEPT !["tables"] =
                    SeqV([t.items EXCEPT ![1] =
                        MapV(Put(t.items[1].m, "facts", SeqV(facts)))])])]

\* What a call leaves behind: the heap, how it ended, the loaded template
\* (cell `base`, value `tmpl`), the assembled document (cell `doc`), the value
\* returned (`ret`) and the side effects, in order.
Raised(h, e, base, tmpl) ==
    [heap |-> h, status |-> "raised", exc |-> e, base |-> base, tmpl |-> tmpl,
     doc |-> 0, ret |-> NoneV, effects |-> <<>>]

Returned(h, base, tmpl, doc, w) ==
    [heap |-> h, status |-> "returned", exc |-> "none", base |-> base,
     tmpl |-> tmpl, doc |-> doc, ret |-> Val(h, h[doc]), effects |-> w]

(***************************************************************************)
(* generate_dynamic_semantic_model, in the order of its statements: load   *)
(* the template, copy it, resolve the names, assign, save, return.         *)
(***************************************************************************)
\* lines 569-573: save when output_path is given, return the model
SaveAndReturn(h, base, tmpl, dyn, output_path, saveOk) ==
    Returned(h, base, tmpl, dyn,
             IF output_path # "" THEN save_yaml_file(h, dyn, AsPath(output_path), saveOk)
             ELSE <<>>)

\* lines 561-567: replace the facts of the first table, or warn
Assign(h, tt, set, base, tmpl, dyn, output_path, saveOk) ==
    IF tt.exc # "none" THEN Raised(h, tt.exc, base, tmpl)
    ELSE IF ~tt.found THEN SaveAndReturn(h, base, tmpl, dyn, output_path, saveOk)
    ELSE IF set.exc # "none" THEN Raised(h, set.exc, base, tmpl)
    ELSE SaveAndReturn([h EXCEPT ![dyn] = set.doc], base, tmpl, dyn,
                       output_path, saveOk)

\* lines 554-559: resolve; with nothing selected the copy is returned as is
Selected(got, base, tmpl, dyn, output_path, saveOk) ==
    IF got.selected = <<>> THEN Returned(got.heap, base, tmpl, dyn, <<>>)
    ELSE Assign(got.heap, TablesTest(got.heap[dyn]),
                SetFacts(got.heap[dyn], got.selected),
                base, tmpl, dyn, output_path, saveOk)

\* lines 551-552
Copied(cp, base, tmpl, fact_names, facts_path, output_path, saveOk) ==
    Selected(get_facts_by_names(cp.heap, fact_names, facts_path),
             base, tmpl, cp.addr, output_path, saveOk)

\* lines 547-549
Loaded(h, ld, fact_names, facts_path, output_path, saveOk) ==
    IF ld.exc # "none" THEN Raised(h, ld.exc, 0, NoneV)
    ELSE IF Falsy(ld.val) THEN Raised(Append(h, ld.val), "ValueError", Len(h) + 1, ld.val)
    ELSE Copied(deepcopy(Append(h, ld.val), Len(h) + 1), Len(h) + 1, ld.val,
                fact_names, facts_path, output_path, saveOk)

generate_dynamic_semantic_model(h, fact_names, base_path, facts_path, output_path, saveOk) ==
    Loaded(h, load_yaml(base_path), fact_names, facts_path, output_path, saveOk)

(***************************************************************************)
(* extract_fact_names_from_dataframe.  A data frame is the sequence of its *)
(* rows' ELEMENT_NUMBER cells: a string, None, NaN, or no such column.     *)
(***************************************************************************)
NaN == [kind |-> "nan"]
Absent == [kind |-> "absent"]

\* str(row.get('ELEMENT_NUMBER', ''))
StrOf(cell) ==
    CASE cell.kind = "none" -> "None"
      [] cell.kind = "nan" -> "nan"
      [] cell.kind = "absent" -> ""
      [] OTHER -> cell.v

\* str.strip on the strings of the model
Strip(s) ==
    CASE s = " A " -> "A"
      [] s = " " -> ""
      [] OTHER -> s

NameOfRow(n) == IF n = "" THEN <<>> ELSE <<n>>

RECURSIVE extract_fact_names_from_dataframe(_)
extract_fact_names_from_dataframe(df) ==
    IF df = <<>> THEN <<>>
    ELSE NameOfRow(Strip(StrOf(Head(df))))
         \o extract_fact_names_from_dataframe(Tail(df))

(***************************************************************************)
(* generate_unique_filename: base, the clock's second, extension.          *)
(***************************************************************************)
generate_unique_filename(base_name, extension, now) ==
    FileName(base_name, <<now>>, extension)

(***************************************************************************)
(* upload_to_snowflake_stage.  A stage name is the sequence of its parts,  *)
(* "@" being the marker.  env gives what the connection does: cursorOk     *)
(* (conn.cursor()), putOk (cursor.execute), fetchOk and row                *)
(* (cursor.fetchone()), closeOk (cursor.close()).                          *)
(***************************************************************************)
\* Mutant of NormStage: the marker is prepended without the startswith test.
NormStage_Always(stage_name) == <<"@">> \o stage_name

\* lines 154-156
NormStage(stage_name) ==
    IF stage_name # <<>> /\ Head(stage_name) = "@" THEN stage_name
    ELSE <<"@">> \o stage_name

\* Both branches of `if remote_file_name` build the same command; the file
\* lands in the stage under the local file's own name.
PutCommand(local_file_path, stage_name, remote_file_name) ==
    [op |-> "put", local |-> local_file_path, stage |-> NormStage(stage_name),
     staged |-> local_file_path.name]

\* What cursor.fetchone() gives: None, or the tuple of the columns of the
\* PUT result (source, target, sizes, compressions, status, message).
RowV(cols) == [kind |-> "row", cols |-> cols]
PutRow(status) ==
    RowV(<<"model.yaml", "model.yaml.gz", "10", "8", "NONE", "GZIP", status, "">>)

\* result[6], counted from 0
StatusColumn == 6

\* Mutant of StatusDecision: `if result:`, any row counts as uploaded.
StatusDecision_AnyRow(result) ==
    [exc |-> "none", ok |-> result.kind = "row" /\ result.cols # <<>>]

\* lines 173-179: `if result and result[6] == 'UPLOADED'`; exc is the
\* IndexError of a row that has no column 6.
StatusDecision(result) ==
    IF result.kind = "none" \/ result.cols = <<>> THEN [exc |-> "none", ok |-> FALSE]
    ELSE IF Len(result.cols) < StatusColumn + 1 THEN [exc |-> "IndexError", ok |-> FALSE]
    ELSE [exc |-> "none", ok |-> result.cols[StatusColumn + 1] = "UPLOADED"]

\* lines 169-183 with the cursor in hand: every exception of the try block
\* is caught by `except Exception` and gives False.
UploadBody(decision, local_file_path, stage_name, remote_file_name, env) ==
    IF ~env.putOk THEN [ok |-> FALSE, effects |-> <<[op |-> "cursor"]>>]
    ELSE [ok |-> env.fetchOk /\ decision.exc = "none" /\ decision.ok,
          effects |-> <<[op |-> "cursor"],
                        PutCommand(local_file_path, stage_name, remote_file_name)>>]

\* lines 184-186: finally cursor.close(); its exception replaces the return
UploadFinally(body, env) ==
    IF env.closeOk
    THEN [exc |-> "none", ok |-> body.ok,
          effects |-> body.effects \o <<[op |-> "cursor_close"]>>]
    ELSE [exc |-> "ProgrammingError", ok |-> FALSE, effects |-> body.effects]

upload_to_snowflake_stage(local_file_path, stage_name, remote_file_name, env) ==
    IF ~env.cursorOk
    THEN \* `if cursor:` in the finally block reads an unbound local
         [exc |-> "UnboundLocalError", ok |-> FALSE, effects |-> <<>>]
    ELSE UploadFinally(UploadBody(StatusDecision(env.row), local_file_path,
                                  stage_name, remote_file_name, env), env)

(***************************************************************************)
(* save_and_upload_to_stage                                                *)
(***************************************************************************)
UploadResult(saved, up, unique_filename) ==
    [exc |-> IF up.exc # "none" THEN up.exc
             ELSE IF up.ok THEN "none" ELSE "Exception",
     name |-> unique_filename,
     effects |-> saved \o up.effects]

SaveAndUpload(h, data, stage_name, unique_filename, local_file_path, env) ==
    UploadResult(save_yaml_file(h, data, local_file_path, env.saveOk),
                 upload_to_snowflake_stage(local_file_path, stage_name,
                                           unique_filename, env),
                 unique_filename)

LocalFilePath(local_output_path, unique_filename) ==
    IF local_output_path # "" THEN AsPath(local_output_path)
    ELSE PathOf("tmp", unique_filename)

WithUniqueName(h, data, stage_name, unique_filename, local_output_path, env) ==
    SaveAndUpload(h, data, stage_name, unique_filename,
                  LocalFilePath(local_output_path, unique_filename), env)

save_and_upload_to_stage(h, data, stage_name, base_filename, local_output_path, env) ==
    WithUniqueName(h, data, stage_name,
                   generate_unique_filename(base_filename, "yaml", env.now),
                   local_output_path, env)

(***************************************************************************)
(* convert_to_yaml_string: the text of the document, "" when yaml.dump     *)
(* fails.                                                                  *)
(***************************************************************************)
convert_to_yaml_string(h, data, ok) ==
    IF ok THEN Text(Val(h, h[data])) ELSE Scalar("")

(***************************************************************************)
(* list_available_facts: the names of the catalog's items that are         *)
(* mappings with a `name`, in catalog order.                               *)
(***************************************************************************)
NameOfFact(fact) ==
    IF fact.kind = "map" /\ "name" \in DOMAIN fact.m THEN <<fact.m["name"].v>> ELSE <<>>

RECURSIVE NamesIn(_, _, _)
NamesIn(h, all_facts, i) ==
    IF i > Len(all_facts) THEN <<>>
    ELSE NameOfFact(Deref(h, all_facts[i])) \o NamesIn(h, all_facts, i + 1)

ListedFrom(ld) == [heap |-> ld.heap, names |-> NamesIn(ld.heap, ld.all, 1)]

list_available_facts(h, facts_path) == ListedFrom(load_facts_from_yaml(h, facts_path))

(***************************************************************************)
(* datetime.now(): the local wall clock at instant t (seconds).  A zone    *)
(* sets the local clock back by `by` seconds at instant `back` (the end of *)
(* daylight saving time, a clock adjustment); by = 0 is a clock that is    *)
(* never set back.  strftime("%Y%m%d_%H%M%S") keeps the local reading to   *)
(* the second and nothing of the offset.                                   *)
(***************************************************************************)
LocalTime(zone, t) == IF t >= zone.back THEN t - zone.by ELSE t

(***************************************************************************)
(* CortexAnalystClient.send_message.  conversation_history is None or a    *)
(* list; "" stands for a model argument that is None.  env.postOk: the     *)
(* HTTP request succeeds.                                                  *)
(***************************************************************************)
UserMessage(question) == [role |-> "user", text |-> question]

\* Mutant of BuildMessages: messages is the caller's list itself.
BuildMessages_Alias(conversation_history, question) ==
    IF Falsy(conversation_history)
    THEN [messages |-> <<UserMessage(question)>>, history |-> conversation_history]
    ELSE [messages |-> Append(conversation_history.items, UserMessage(question)),
          history |-> SeqV(Append(conversation_history.items, UserMessage(question)))]

\* lines 676-690: a new list, the history's items, then the question;
\* history is the caller's list afterwards.
BuildMessages(conversation_history, question) ==
    [messages |-> (IF Falsy(conversation_history) THEN <<>>
                   ELSE conversation_history.items) \o <<UserMessage(question)>>,
     history |-> conversation_history]

\* lines 692-704
BuildPayload(messages, stream, semantic_model, semantic_model_file) ==
    IF semantic_model_file # ""
    THEN [exc |-> "none",
          payload |-> [messages |-> messages, stream |-> stream,
                       semantic_model_file |-> semantic_model_file]]
    ELSE IF semantic_model # ""
    THEN [exc |-> "none",
          payload |-> [messages |-> messages, stream |-> stream,
                       semantic_model |-> semantic_model]]
    ELSE [exc |-> "ValueError", payload |-> [messages |-> messages, stream |-> stream]]

\* lines 706-724: requests.post; a RequestException is printed and raised again
PostMessage(built, p, env) ==
    IF p.exc # "none"
    THEN [exc |-> p.exc, ret |-> NoneV, effects |-> <<>>, history |-> built.history]
    ELSE IF ~env.postOk
    THEN [exc |-> "RequestException", ret |-> NoneV,
          effects |-> <<[op |-> "post", payload |-> p.payload]>>,
          history |-> built.history]
    ELSE [exc |-> "none", ret |-> [kind |-> "response", streamed |-> p.payload.stream],
          effects |-> <<[op |-> "post", payload |-> p.payload]>>,
          history |-> built.history]

SendBuilt(built, stream, semantic_model, semantic_model_file, env) ==
    PostMessage(built,
                BuildPayload(built.messages, stream, semantic_model, semantic_model_file),
                env)

send_message(question, semantic_model, semantic_model_file, stream, conversation_history, env) ==
    SendBuilt(BuildMessages(conversation_history, question), stream, semantic_model,
              semantic_model_file, env)

(***************************************************************************)
(* generate_semantic_model_from_snowflake, in the order of its statements. *)
(* a: the arguments ("" and <<>> stand for None); env: what the connection,*)
(* the query and the file system do; e: the side effects so far.           *)
(***************************************************************************)
SnowRaised(h, e, exc, base, tmpl) ==
    [heap |-> h, status |-> "raised", exc |-> exc, base |-> base, tmpl |-> tmpl,
     doc |-> 0, ret |-> NoneV, effects |-> e]

SnowReturned(h, e, base, tmpl, doc, ret) ==
    [heap |-> h, status |-> "returned", exc |-> "none", base |-> base,
     tmpl |-> tmpl, doc |-> doc, ret |-> ret, effects |-> e]

\* lines 374-378
SnowReturn(h, e, base, tmpl, dyn, a, env) ==
    SnowReturned(h, e, base, tmpl, dyn,
                 IF a.return_yaml_string
                 THEN convert_to_yaml_string(h, dyn, env.dumpOk)
                 ELSE Val(h, h[dyn]))

\* Mutant of SnowStage: no try/except around save_and_upload_to_stage.
SnowStage_Propagate(h, e, base, tmpl, dyn, a, env) ==
    IF a.stage_name # <<>>
          /\ save_and_upload_to_stage(h, dyn, a.stage_name, a.stage_filename_base,
                                      a.output_path, env).exc # "none"
    THEN SnowRaised(h, e \o save_and_upload_to_stage(h, dyn, a.stage_name,
                              a.stage_filename_base, a.output_path, env).effects,
                    save_and_upload_to_stage(h, dyn, a.stage_name,
                              a.stage_filename_base, a.output_path, env).exc,
                    base, tmpl)
    ELSE SnowReturn(h,
                    IF a.stage_name # <<>>
                    THEN e \o save_and_upload_to_stage(h, dyn, a.stage_name,
                                   a.stage_filename_base, a.output_path, env).effects
                    ELSE e,
                    base, tmpl, dyn, a, env)

\* lines 359-372: the upload's own failure is caught and printed
SnowStage(h, e, base, tmpl, dyn, a, env) ==
    SnowReturn(h,
               IF a.stage_name # <<>>
               THEN e \o save_and_upload_to_stage(h, dyn, a.stage_name,
                              a.stage_filename_base, a.output_path, env).effects
               ELSE e,
               base, tmpl, dyn, a, env)

\* lines 355-357
SnowSave(h, e, base, tmpl, dyn, a, env) ==
    SnowStage(h,
              IF a.output_path # ""
              THEN e \o save_yaml_file(h, dyn, AsPath(a.output_path), env.saveOk)
              ELSE e,
              base, tmpl, dyn, a, env)

\* lines 348-353
SnowAssign(h, e, tt, set, base, tmpl, dyn, a, env) ==
    IF tt.exc # "none" THEN SnowRaised(h, e, tt.exc, base, tmpl)
    ELSE IF ~tt.found THEN SnowSave(h, e, base, tmpl, dyn, a, env)
    ELSE IF set.exc # "none" THEN SnowRaised(h, e, set.exc, base, tmpl)
    ELSE SnowSave([h EXCEPT ![dyn] = set.doc], e, base, tmpl, dyn, a, env)

\* lines 345-346
SnowCopied(cp, e, facts, base, tmpl, a, env) ==
    SnowAssign(cp.heap, e, TablesTest(cp.heap[cp.addr]),
               SetFacts(cp.heap[cp.addr], facts), base, tmpl, cp.addr, a, env)

\* Mutant of SnowLoaded: the copy is saved before the template is tested.
SnowLoaded_SaveFirst(h, e, ld, facts, a, env) ==
    IF ld.exc # "none" THEN SnowRaised(h, e, ld.exc, 0, NoneV)
    ELSE IF Falsy(ld.val)
         THEN SnowRaised(Append(h, ld.val),
                         IF a.output_path # ""
                         THEN e \o save_yaml_file(Append(h, ld.val), Len(h) + 1,
                                                  AsPath(a.output_path), env.saveOk)
                         ELSE e,
                         "ValueError", Len(h) + 1, ld.val)
    ELSE SnowCopied(deepcopy(Append(h, ld.val), Len(h) + 1), e, facts,
                    Len(h) + 1, ld.val, a, env)

\* lines 339-343
SnowLoaded(h, e, ld, facts, a, env) ==
    IF ld.exc # "none" THEN SnowRaised(h, e, ld.exc, 0, NoneV)
    ELSE IF Falsy(ld.val)
         THEN SnowRaised(Append(h, ld.val), e, "ValueError", Len(h) + 1, ld.val)
    ELSE SnowCopied(deepcopy(Append(h, ld.val), Len(h) + 1), e, facts,
                    Len(h) + 1, ld.val, a, env)

\* lines 331-337
SnowFacts(got, e, a, env) ==
    IF got.selected = <<>> THEN SnowReturned(got.heap, e, 0, NoneV, 0, EmptyMap)
    ELSE SnowLoaded(got.heap, e, load_yaml(a.base_path), got.selected, a, env)

\* lines 323-329
SnowNames(h, e, fact_names, a, env) ==
    IF fact_names = <<>> THEN SnowReturned(h, e, 0, NoneV, 0, EmptyMap)
    ELSE SnowFacts(get_facts_by_names(h, fact_names, a.facts_path), e, a, env)

\* lines 314-321
SnowQuery(h, e, a, env) ==
    IF ~env.queryOk THEN SnowRaised(h, e, "DatabaseError", 0, NoneV)
    ELSE IF env.df = <<>> THEN SnowReturned(h, e \o <<[op |-> "query"]>>, 0, NoneV, 0, EmptyMap)
    ELSE SnowNames(h, e \o <<[op |-> "query"]>>,
                   extract_fact_names_from_dataframe(env.df), a, env)

\* lines 307-312: the cursor is closed only when its statement succeeds
SnowWarehouse(h, e, a, env) ==
    IF a.warehouse = "" THEN SnowQuery(h, e, a, env)
    ELSE IF ~env.useOk
         THEN SnowRaised(h, e \o <<[op |-> "cursor"]>>, "ProgrammingError", 0, NoneV)
    ELSE SnowQuery(h, e \o <<[op |-> "cursor"], [op |-> "cursor_close"]>>, a, env)

\* Mutant of Closed: conn.close() at the end of the try block, no finally.
Closed_OnReturn(r) ==
    IF r.status = "returned" THEN [r EXCEPT !.effects = @ \o <<[op |-> "close"]>>]
    ELSE r

\* lines 306, 380-384: try ... finally conn.close()
Closed(r) == [r EXCEPT !.effects = @ \o <<[op |-> "close"]>>]

\* create_snowflake_connection, lines 62-94, as called on line 304
SnowConnect(h, credential, a, env) ==
    IF a.account = "" \/ a.user = "" THEN SnowRaised(h, <<>>, "ValueError", 0, NoneV)
    ELSE IF ~env.connectOk
         THEN SnowRaised(h, <<[op |-> "connect_failed", password |-> credential]>>,
                         "ConnectError", 0, NoneV)
    ELSE Closed(SnowWarehouse(h, <<[op |-> "connect", password |-> credential]>>,
                              a, env))

\* Mutant of generate_semantic_model_from_snowflake: the password is tested
\* before the token.
generate_semantic_model_from_snowflake_PasswordFirst(h, a, env) ==
    IF a.password # "" THEN SnowConnect(h, a.password, a, env)
    ELSE IF a.token # "" THEN SnowConnect(h, a.token, a, env)
    ELSE SnowRaised(h, <<>>, "ValueError", 0, NoneV)

\* lines 277-304
generate_semantic_model_from_snowflake(h, a, env) ==
    IF a.token # "" THEN SnowConnect(h, a.token, a, env)
    ELSE IF a.password # "" THEN SnowConnect(h, a.password, a, env)
    ELSE SnowRaised(h, <<>>, "ValueError", 0, NoneV)

(***************************************************************************)
(* The program as a state machine.  `catalog` is the content of the fact   *)
(* files, `calls` the calls made so far with their outcome, `effects` the  *)
(* side effects so far (file writes, connection and cursor use), in order. *)
(***************************************************************************)
NameLists == BoundedSeq(Requested, MaxNames)

OutPaths == {"", "out.yaml"}

Call(fn, names, bp, fp, out, saveOk, r) ==
    [fn |-> fn, names |-> names, base_path |-> bp, facts_path |-> fp,
     output_path |-> out, saveOk |-> saveOk, status |-> r.status, exc |-> r.exc,
     wrote |-> r.effects,
     base |-> r.base, tmpl |-> r.tmpl, doc |-> r.doc, ret |-> r.ret,
     changed |-> FALSE]

Record(c, r) ==
    /\ heap' = r.heap
    /\ calls' = Append(calls, c)
    /\ effects' = effects \o r.effects
    /\ UNCHANGED catalog

\* get_facts_by_names called on its own; the returned list is a new object
\* whose items are the catalog's records.
ListReturned(g) ==
    Returned(Append(g.heap, SeqV(g.selected)), 0, NoneV, Len(g.heap) + 1, <<>>)

Recorded(fn, names, bp, fp, out, saveOk, r) ==
    Record(Call(fn, names, bp, fp, out, saveOk, r), r)

DoGetFacts(names, fp) ==
    Recorded("get_facts_by_names", names, "", fp, "", FALSE,
             ListReturned(get_facts_by_names(heap, names, fp)))

DoGenerateDynamic(names, bp, fp, out, saveOk) ==
    Recorded("generate_dynamic_semantic_model", names, bp, fp, out, saveOk,
             generate_dynamic_semantic_model(heap, names, bp, fp, out, saveOk))

\* The cells of a query result: the requested names and a blank cell.
Cells == {Scalar(n) : n \in Requested} \cup {Scalar(" ")}

DataFrames == BoundedSeq(Cells, MaxNames)

SnowArgs(bp, out, yaml) ==
    [account |-> "acct", user |-> "user", password |-> "pw", token |-> "",
     warehouse |-> "", base_path |-> bp, facts_path |-> "facts.yaml",
     output_path |-> out, stage_name |-> <<>>,
     stage_filename_base |-> "semantic_model", return_yaml_string |-> yaml]

SnowEnv(df) ==
    [connectOk |-> TRUE, useOk |-> TRUE, queryOk |-> TRUE, df |-> df,
     saveOk |-> TRUE, cursorOk |-> TRUE, putOk |-> TRUE, fetchOk |-> TRUE,
     row |-> PutRow("UPLOADED"), closeOk |-> TRUE, dumpOk |-> TRUE, now |-> 1]

\* The call record of a Snowflake run keeps the extracted names and, in
\* saveOk, the return_yaml_string flag.
DoGenerateFromSnowflake(df, bp, out, yaml) ==
    Recorded("generate_semantic_model_from_snowflake",
             extract_fact_names_from_dataframe(df), bp, "facts.yaml", out, yaml,
             generate_semantic_model_from_snowflake(heap, SnowArgs(bp, out, yaml),
                                                    SnowEnv(df)))

Init ==
    /\ catalog \in BoundedSeq(Entries, MaxCatalog)
    /\ heap = <<>>
    /\ calls = <<>>
    /\ effects = <<>>

GenerateDynamic ==
    /\ calls = <<>>
    /\ \E names \in NameLists, bp \in BasePaths, out \in OutPaths, saveOk \in BOOLEAN :
          /\ out = "" => saveOk
          /\ DoGenerateDynamic(names, bp, "facts.yaml", out, saveOk)

GetFacts ==
    /\ calls = <<>>
    /\ \E names \in NameLists, fp \in FactsPaths : DoGetFacts(names, fp)

GenerateFromSnowflake ==
    /\ calls = <<>>
    /\ \E df \in DataFrames, bp \in BasePaths, out \in OutPaths, yaml \in BOOLEAN :
          DoGenerateFromSnowflake(df, bp, out, yaml)

\* The same call once more, same arguments, same files (the two functions
\* that need no connection).
CallAgain ==
    /\ Len(calls) = 1
    /\ calls[1].fn # "generate_semantic_model_from_snowflake"
    /\ IF calls[1].fn = "get_facts_by_names"
       THEN DoGetFacts(calls[1].names, calls[1].facts_path)
       ELSE DoGenerateDynamic(calls[1].names, calls[1].base_path,
                              calls[1].facts_path, calls[1].output_path,
                              calls[1].saveOk)

\* The caller changes tables[0].facts of the document the first call returned.
ChangeResult ==
    /\ calls # <<>>
    /\ LET c == calls[1] IN
       /\ c.fn = "generate_dynamic_semantic_model"
       /\ c.status = "returned" /\ ~c.changed
       /\ TablesTest(heap[c.doc]).found
       /\ heap' = [heap EXCEPT ![c.doc] = SetFacts(@, <<Scalar("changed")>>).doc]
       /\ calls' = [calls EXCEPT ![1].changed = TRUE]
    /\ UNCHANGED <<catalog, effects>>

Next ==
    \/ GenerateDynamic
    \/ GetFacts
    \/ GenerateFromSnowflake
    \/ CallAgain
    \/ ChangeResult

Spec == Init /\ [][Next]_vars

(***************************************************************************)
(* The loaders called on their own, on every file of the model.            *)
(***************************************************************************)
AllPaths == FactsPaths \cup BasePaths

Outcome(exc) == IF exc = "none" THEN "returned" ELSE "raised"

LoadCall(fn, path, exc, ret) ==
    [fn |-> fn, path |-> path, status |-> Outcome(exc), exc |-> exc, ret |-> ret]

DoLoadYaml(path, ld) ==
    /\ calls' = <<LoadCall("load_yaml", path, ld.exc, ld.val)>>
    /\ heap' = IF ld.exc = "none" THEN Append(heap, ld.val) ELSE heap
    /\ UNCHANGED <<catalog, effects>>

LoadYaml ==
    /\ calls = <<>>
    /\ \E path \in AllPaths : DoLoadYaml(path, load_yaml(path))

\* The list load_facts_from_yaml returns, as a value.
ListOf(r) == SeqV([i \in 1..Len(r.all) |-> Val(r.heap, r.all[i])])

DoLoadFacts(path, r) ==
    /\ calls' = <<LoadCall("load_facts_from_yaml", path, r.exc,
                           IF r.exc = "none" THEN ListOf(r) ELSE NoneV)>>
    /\ heap' = r.heap
    /\ UNCHANGED <<catalog, effects>>

LoadFacts ==
    /\ calls = <<>>
    /\ \E path \in FactsPaths : DoLoadFacts(path, load_facts_from_yaml(heap, path))

NextLoad ==
    \/ LoadYaml
    \/ LoadFacts
    \/ GetFacts

SpecLoad == Init /\ [][NextLoad]_vars

(***************************************************************************)
(* The Snowflake side on its own: name extraction, the stage upload and    *)
(* the whole run, with every failure the connection, the cursor and the    *)
(* file system can produce.                                                *)
(***************************************************************************)
MaxRows == 2
MaxStage == 2

\* ELEMENT_NUMBER cells of a query result; a frame without the column has
\* the cell absent in every row.
CellsAll == {Scalar("A"), Scalar(" A "), Scalar(" "), Scalar(""), NoneV, NaN}

QueryResults ==
    BoundedSeq(CellsAll, MaxRows) \cup {[i \in 1..k |-> Absent] : k \in 1..MaxRows}

StageParts == {"@", "stage", "/"}

StageNames == BoundedSeq(StageParts, MaxStage)

\* fetchone(): no row, an empty row, a row without a status column, and
\* rows with a status.
Rows == {NoneV, RowV(<<>>), RowV(<<"model.yaml", "model.yaml.gz">>),
         PutRow("UPLOADED"), PutRow("SKIPPED")}

FaultEnvs ==
    {[connectOk |-> TRUE, useOk |-> TRUE, queryOk |-> TRUE, df |-> <<>>,
      saveOk |-> s, cursorOk |-> c, putOk |-> p, fetchOk |-> f, row |-> r,
      closeOk |-> k, dumpOk |-> TRUE, now |-> 1] :
        s \in BOOLEAN, c \in BOOLEAN, p \in BOOLEAN, f \in BOOLEAN,
        k \in BOOLEAN, r \in Rows}

\* remote_file_name: <<>> for None, <<name>> for a name
RemoteNames == {<<>>, <<generate_unique_filename("semantic_model", "yaml", 1)>>}

InitStage ==
    /\ catalog = <<FactRec("A", "e1"), FactRec("B", "e3")>>
    /\ heap = <<>>
    /\ calls = <<>>
    /\ effects = <<>>

DoExtract(df, fact_names) ==
    /\ calls' = <<[fn |-> "extract_fact_names_from_dataframe", df |-> df,
                   status |-> "returned", exc |-> "none", ret |-> fact_names]>>
    /\ UNCHANGED <<catalog, heap, effects>>

Extract ==
    /\ calls = <<>>
    /\ \E df \in QueryResults : DoExtract(df, extract_fact_names_from_dataframe(df))

DoUpload(stage_name, remote, env, r) ==
    /\ calls' = <<[fn |-> "upload_to_snowflake_stage", stage_name |-> stage_name,
                   remote_file_name |-> remote, env |-> env,
                   status |-> Outcome(r.exc), exc |-> r.exc, ret |-> r.ok,
                   wrote |-> r.effects]>>
    /\ effects' = effects \o r.effects
    /\ UNCHANGED <<catalog, heap>>

Upload ==
    /\ calls = <<>>
    /\ \E stage_name \in StageNames, remote \in RemoteNames, env \in FaultEnvs :
          /\ env.saveOk
          /\ DoUpload(stage_name, remote, env,
                      upload_to_snowflake_stage(AsPath("out.yaml"), stage_name,
                                                remote, env))

DoSaveAndUpload(h, stage_name, out, env, r) ==
    /\ calls' = <<[fn |-> "save_and_upload_to_stage", stage_name |-> stage_name,
                   local_output_path |-> out, env |-> env,
                   status |-> Outcome(r.exc), exc |-> r.exc,
                   ret |-> IF r.exc = "none" THEN <<r.name>> ELSE <<>>,
                   wrote |-> r.effects]>>
    /\ heap' = h
    /\ effects' = effects \o r.effects
    /\ UNCHANGED catalog

SaveAndUploadOf(h, stage_name, out, env) ==
    DoSaveAndUpload(h, stage_name, out, env,
                    save_and_upload_to_stage(h, 1, stage_name, "semantic_model",
                                             out, env))

SaveAndUploadToStage ==
    /\ calls = <<>>
    /\ \E stage_name \in StageNames \ {<<>>}, out \in OutPaths, env \in FaultEnvs :
          SaveAndUploadOf(<<File("base.yaml").doc>>, stage_name, out, env)

StagedArgs(bp, out, yaml, stage_name) ==
    [SnowArgs(bp, out, yaml) EXCEPT !.stage_name = stage_name]

DoGenerateStaged(a, env, r) ==
    /\ calls' = <<[fn |-> "generate_semantic_model_from_snowflake", args |-> a,
                   env |-> env, status |-> r.status, exc |-> r.exc,
                   wrote |-> r.effects, base |-> r.base, tmpl |-> r.tmpl,
                   doc |-> r.doc, ret |-> r.ret]>>
    /\ heap' = r.heap
    /\ effects' = effects \o r.effects
    /\ UNCHANGED catalog

GenerateStagedOf(a, env) ==
    DoGenerateStaged(a, env, generate_semantic_model_from_snowflake(heap, a, env))

StagedFrames == {<<Scalar("A")>>, <<Scalar("M")>>}

StagedBases == {"base.yaml", "base_tables0.yaml", "missing.yaml"}

GenerateStaged ==
    /\ calls = <<>>
    /\ \E df \in StagedFrames, bp \in StagedBases, out \in OutPaths,
          yaml \in BOOLEAN, stage_name \in {<<>>, <<"stage">>}, env \in FaultEnvs :
          GenerateStagedOf(StagedArgs(bp, out, yaml, stage_name),
                           [env EXCEPT !.df = df])

NextStage ==
    \/ Extract
    \/ Upload
    \/ SaveAndUploadToStage
    \/ GenerateStaged

SpecStage == InitStage /\ [][NextStage]_vars

(***************************************************************************)
(* A whole Snowflake run with the credentials, the warehouse and every     *)
(* outcome of connecting, selecting the warehouse and querying.            *)
(***************************************************************************)
ConnArgs(token, password, warehouse, bp, out, yaml, stage_name) ==
    [StagedArgs(bp, out, yaml, stage_name) EXCEPT
        !.token = token, !.password = password, !.warehouse = warehouse]

ConnEnvs ==
    {[connectOk |-> c, useOk |-> u, queryOk |-> q, df |-> <<>>,
      saveOk |-> TRUE, cursorOk |-> k, putOk |-> TRUE, fetchOk |-> TRUE,
      row |-> PutRow("UPLOADED"), closeOk |-> TRUE, dumpOk |-> d, now |-> 1] :
        c \in BOOLEAN, u \in BOOLEAN, q \in BOOLEAN, k \in BOOLEAN, d \in BOOLEAN}

\* Query results: no rows, a blank cell, a name that is not in the catalog,
\* a name that is.
ConnFrames == {<<>>, <<Scalar(" ")>>, <<Scalar("M")>>, <<Scalar("A")>>}

GenerateConnected ==
    /\ calls = <<>>
    /\ \E token \in {"", "tok"}, password \in {"", "pw"}, warehouse \in {"", "wh"},
          df \in ConnFrames, bp \in StagedBases, out \in OutPaths, yaml \in BOOLEAN,
          stage_name \in {<<>>, <<"stage">>}, env \in ConnEnvs :
          GenerateStagedOf(ConnArgs(token, password, warehouse, bp, out, yaml,
                                    stage_name),
                           [env EXCEPT !.df = df])

NextConn == GenerateConnected

SpecConn == InitStage /\ [][NextConn]_vars

(***************************************************************************)
(* The helpers on their own: the name generator read at two instants of    *)
(* the local clock, the two serializers, and the Cortex Analyst client.    *)
(***************************************************************************)
MaxClock == 3
MaxShift == 2
MaxHistory == 2

Zones == [back : 1..MaxClock, by : 0..MaxShift]

BaseNames == {"semantic_model", "mortgage_model"}

DoUniqueName(base_name, zone, t) ==
    /\ calls' = Append(calls,
                  [fn |-> "generate_unique_filename", base_name |-> base_name,
                   extension |-> "yaml", at |-> t, zone |-> zone,
                   status |-> "returned", exc |-> "none",
                   ret |-> generate_unique_filename(base_name, "yaml",
                                                    LocalTime(zone, t))])
    /\ UNCHANGED <<catalog, heap, effects>>

UniqueName ==
    /\ calls = <<>>
    /\ \E base_name \in BaseNames, zone \in Zones, t \in 0..MaxClock :
          DoUniqueName(base_name, zone, t)

\* A later call, on the same machine: same zone, the clock has not run back.
UniqueNameAgain ==
    /\ Len(calls) = 1
    /\ calls[1].fn = "generate_unique_filename"
    /\ \E base_name \in BaseNames, t \in calls[1].at..MaxClock :
          DoUniqueName(base_name, calls[1].zone, t)

DumpDocs ==
    {File(path).doc : path \in {"base.yaml", "base_nofacts.yaml", "facts.yaml",
                                "facts_wrapped.yaml", "empty.yaml"}}

DoSerialize(doc, ok, text) ==
    /\ calls' = <<[fn |-> "convert_to_yaml_string", data |-> doc, ok |-> ok,
                   status |-> "returned", exc |-> "none", ret |-> text]>>
    /\ heap' = <<doc>>
    /\ UNCHANGED <<catalog, effects>>

Serialize ==
    /\ calls = <<>>
    /\ \E doc \in DumpDocs, ok \in BOOLEAN :
          DoSerialize(doc, ok, convert_to_yaml_string(<<doc>>, 1, ok))

DoSaveFile(doc, out, ok, w) ==
    /\ calls' = <<[fn |-> "save_yaml_file", data |-> doc, output_path |-> out,
                   ok |-> ok, status |-> "returned", exc |-> "none", wrote |-> w]>>
    /\ heap' = <<doc>>
    /\ effects' = effects \o w
    /\ UNCHANGED catalog

SaveFile ==
    /\ calls = <<>>
    /\ \E doc \in DumpDocs, ok \in BOOLEAN :
          DoSaveFile(doc, "out.yaml", ok,
                     save_yaml_file(<<doc>>, 1, AsPath("out.yaml"), ok))

Messages == {UserMessage("q0"), [role |-> "analyst", text |-> "a0"]}

Histories == {NoneV} \cup {SeqV(s) : s \in BoundedSeq(Messages, MaxHistory)}

DoSendMessage(question, semantic_model, semantic_model_file, stream, history, r) ==
    /\ calls' = <<[fn |-> "send_message", question |-> question,
                   semantic_model |-> semantic_model,
                   semantic_model_file |-> semantic_model_file, stream |-> stream,
                   conversation_history |-> history,
                   status |-> Outcome(r.exc), exc |-> r.exc, ret |-> r.ret,
                   wrote |-> r.effects, history_after |-> r.history]>>
    /\ effects' = effects \o r.effects
    /\ UNCHANGED <<catalog, heap>>

SendMessage ==
    /\ calls = <<>>
    /\ \E semantic_model \in {"", "name: model"},
          semantic_model_file \in {"", "@stage/model.yaml"},
          stream \in BOOLEAN, history \in Histories, postOk \in BOOLEAN :
          DoSendMessage("q1", semantic_model, semantic_model_file, stream, history,
                        send_message("q1", semantic_model, semantic_model_file,
                                     stream, history, [postOk |-> postOk]))

NextUtil ==
    \/ UniqueName
    \/ UniqueNameAgain
    \/ Serialize
    \/ SaveFile
    \/ SendMessage

SpecUtil == InitStage /\ [][NextUtil]_vars

(***************************************************************************)
(* Listing the catalog and using the listed names, as setup.py does.       *)
(***************************************************************************)
DoListFacts(fp, r) ==
    /\ calls' = <<[fn |-> "list_available_facts", facts_path |-> fp,
                   status |-> "returned", exc |-> "none", ret |-> r.names]>>
    /\ heap' = r.heap
    /\ UNCHANGED <<catalog, effects>>

ListFacts ==
    /\ calls = <<>>
    /\ \E fp \in FactsPaths : DoListFacts(fp, list_available_facts(heap, fp))

Listed == Len(calls) = 1 /\ calls[1].fn = "list_available_facts"

ResolveListed ==
    /\ Listed
    /\ \E k \in 0..Len(calls[1].ret) :
          DoGetFacts(SubSeq(calls[1].ret, 1, k), calls[1].facts_path)

GenerateListed ==
    /\ Listed
    /\ \E k \in 0..Len(calls[1].ret), bp \in BasePaths :
          DoGenerateDynamic(SubSeq(calls[1].ret, 1, k), bp, calls[1].facts_path,
                            "out.yaml", TRUE)

NextList ==
    \/ ListFacts
    \/ ResolveListed
    \/ GenerateListed

SpecList == Init /\ [][NextList]_vars

(***************************************************************************)
(* Vocabulary of the properties.                                           *)
(***************************************************************************)
IsGenerate(c) == c.fn = "generate_dynamic_semantic_model"
IsSnowflake(c) == c.fn = "generate_semantic_model_from_snowflake"
IsGetFacts(c) == c.fn = "get_facts_by_names"

\* An empty template load: {} (missing file, parse failure) or None.
EmptyLoad(v) == v = EmptyMap \/ v = NoneV

IsRecord(v) == v.kind = "map" /\ "name" \in DOMAIN v.m

\* The names that have a record in the catalog.
CatalogNames == {catalog[i].m["name"].v : i \in {j \in 1..Len(catalog) : IsRecord(catalog[j])}}

\* The earliest record of the catalog with that name.
EarliestRecord(n) ==
    catalog[CHOOSE i \in 1..Len(catalog) :
                /\ IsRecord(catalog[i]) /\ catalog[i].m["name"].v = n
                /\ \A j \in 1..(i - 1) :
                      ~(IsRecord(catalog[j]) /\ catalog[j].m["name"].v = n)]

RECURSIVE Keep(_, _)
Keep(names, S) ==
    IF names = <<>> THEN <<>>
    ELSE (IF Head(names) \in S THEN <<Head(names)>> ELSE <<>>) \o Keep(Tail(names), S)

Count(seq, x) == Cardinality({i \in 1..Len(seq) : seq[i] = x})

\* The sequence of records the catalog gives for the names: request order,
\* absent names left out, earliest record of each name.
Expected(names) ==
    [i \in 1..Len(Keep(names, CatalogNames)) |->
        EarliestRecord(Keep(names, CatalogNames)[i])]

\* The names of a returned list of records.
NamesOf(list) == [i \in 1..Len(list.items) |-> list.items[i].m["name"].v]

\* A call of get_facts_by_names on a file that holds the catalog as a list.
OnCatalog(c) ==
    /\ IsGetFacts(c)
    /\ c.facts_path \in {"facts.yaml", "facts_wrapped.yaml"}

\* What get_facts_by_names returns for a file, as a value.
ResolvedFrom(got) == SeqV([i \in 1..Len(got.selected) |-> Val(got.heap, got.selected[i])])
Resolved(names, facts_path) == ResolvedFrom(get_facts_by_names(<<>>, names, facts_path))

HasFirstTable(v) ==
    /\ v.kind = "map" /\ "tables" \in DOMAIN v.m
    /\ v.m["tables"].kind = "seq" /\ v.m["tables"].items # <<>>

NoTables(v) ==
    /\ v.kind = "map" /\ DOMAIN v.m # {}
    /\ "tables" \notin DOMAIN v.m \/ v.m["tables"] = SeqV(<<>>)

FirstTable(v) == v.m["tables"].items[1]

\* tables[0].facts of a document, None when there is no such field.
FirstTableFacts(v) ==
    IF FirstTable(v).kind = "map" /\ "facts" \in DOMAIN FirstTable(v).m
    THEN FirstTable(v).m["facts"]
    ELSE NoneV

\* The document a call returned: the mapping, or the mapping its text holds.
RetDoc(c) == IF c.ret.kind = "text" THEN c.ret.doc ELSE c.ret

\* d differs from t at most in the `facts` field of the first table.
SameButFacts(t, d) ==
    IF ~HasFirstTable(t) \/ FirstTable(t).kind # "map" THEN d = t
    ELSE /\ d.kind = "map" /\ DOMAIN d.m = DOMAIN t.m
         /\ \A k \in DOMAIN t.m \ {"tables"} : d.m[k] = t.m[k]
         /\ d.m["tables"].kind = "seq"
         /\ Len(d.m["tables"].items) = Len(t.m["tables"].items)
         /\ \A i \in 2..Len(t.m["tables"].items) :
                d.m["tables"].items[i] = t.m["tables"].items[i]
         /\ FirstTable(d).kind = "map"
         /\ DOMAIN FirstTable(d).m \ {"facts"} = DOMAIN FirstTable(t).m \ {"facts"}
         /\ \A k \in DOMAIN FirstTable(t).m \ {"facts"} :
                FirstTable(d).m[k] = FirstTable(t).m[k]

\* The heap cells an object reaches.
CellsOf(a) == {a} \cup Addrs(heap, heap[a])

(***************************************************************************)
(* C1. Full replacement: whenever generate_dynamic_semantic_model returns  *)
(* a document for a template whose tables is a non-empty sequence, the     *)
(* document's tables[0].facts is exactly the resolved sequence (the empty  *)
(* one included), so no fact of the template survives unless resolved.     *)
(* The code returns the copy untouched when nothing was resolved.          *)
(***************************************************************************)
C1_FullReplacement ==
    \A i \in 1..Len(calls) :
        (IsGenerate(calls[i]) /\ calls[i].status = "returned"
            /\ HasFirstTable(calls[i].tmpl))
        => FirstTableFacts(calls[i].ret) = Resolved(calls[i].names, calls[i].facts_path)

(***************************************************************************)
(* C2. Frame of assembly: a document returned by                           *)
(* generate_dynamic_semantic_model or assembled by                         *)
(* generate_semantic_model_from_snowflake differs from the loaded template *)
(* at most in tables[0].facts, and the loaded template object still holds  *)
(* the value it was loaded with, in every later state.                     *)
(***************************************************************************)
C2_AssemblyFrame ==
    \A i \in 1..Len(calls) :
        (IsGenerate(calls[i]) \/ IsSnowflake(calls[i])) =>
            /\ (calls[i].status = "returned" /\ calls[i].doc # 0)
                  => SameButFacts(calls[i].tmpl, RetDoc(calls[i]))
            /\ calls[i].base # 0
                  => Val(heap, heap[calls[i].base]) = calls[i].tmpl

C2_Witness ==
    /\ Len(calls) = 2
    /\ IsGenerate(calls[2]) /\ calls[2].status = "returned"
    /\ calls[2].base_path = "base.yaml"
    /\ calls[2].ret # calls[2].tmpl
    /\ calls[1].changed

(***************************************************************************)
(* C3. Idempotence of assembly: two calls of                               *)
(* generate_dynamic_semantic_model with the same arguments end the same way*)
(* and return structurally equal documents; the two documents reach no     *)
(* heap cell of each other or of either loaded template, and a change the  *)
(* caller makes to tables[0].facts of the first leaves the second as it    *)
(* was returned.                                                           *)
(***************************************************************************)
C3_Idempotent ==
    (Len(calls) = 2 /\ IsGenerate(calls[1])) =>
        /\ calls[2].status = calls[1].status
        /\ calls[2].ret = calls[1].ret
        /\ calls[1].status = "returned" =>
            /\ CellsOf(calls[1].doc) \cap CellsOf(calls[2].doc) = {}
            /\ \A i, j \in 1..2 : calls[j].base \notin CellsOf(calls[i].doc)
            /\ Val(heap, heap[calls[2].doc]) = calls[2].ret

C3_Witness ==
    /\ Len(calls) = 2
    /\ IsGenerate(calls[1]) /\ calls[1].status = "returned"
    /\ calls[1].changed
    /\ HasFirstTable(calls[2].ret)
    /\ FirstTableFacts(calls[2].ret) = SeqV(<<FactRec("B", "e3"), FactRec("A", "e2")>>)
    /\ Val(heap, heap[calls[1].doc]) # calls[1].ret

(***************************************************************************)
(* C4, as claimed. Empty-template fatal path: whenever the base template   *)
(* at base_path loads empty (missing file, parse failure, empty document)  *)
(* a run of either function ends by raising, whatever the names and the    *)
(* catalog are.                                                            *)
(***************************************************************************)
C4_EmptyTemplateAlwaysRaises ==
    \A i \in 1..Len(calls) :
        ((IsGenerate(calls[i]) \/ IsSnowflake(calls[i]))
            /\ File(calls[i].base_path).status \in {"ok", "bad", "missing"}
            /\ (File(calls[i].base_path).status = "ok"
                    => EmptyLoad(File(calls[i].base_path).doc)))
        => calls[i].status = "raised"

(***************************************************************************)
(* C4, amended. A run of generate_dynamic_semantic_model whose template    *)
(* loads empty, and a run of generate_semantic_model_from_snowflake that   *)
(* reaches the template load (rows returned, a name extracted, a fact      *)
(* resolved) and loads it empty, ends by raising ValueError and returns    *)
(* nothing.                                                                *)
(***************************************************************************)
C4_EmptyTemplateRaises ==
    \A i \in 1..Len(calls) :
        (/\ IsGenerate(calls[i]) \/ IsSnowflake(calls[i])
         /\ File(calls[i].base_path).status \in {"ok", "bad", "missing"}
         /\ File(calls[i].base_path).status = "ok"
                => EmptyLoad(File(calls[i].base_path).doc)
         /\ IsSnowflake(calls[i]) =>
                Resolved(calls[i].names, calls[i].facts_path) # SeqV(<<>>))
        => /\ calls[i].status = "raised" /\ calls[i].exc = "ValueError"
           /\ calls[i].ret = NoneV /\ calls[i].doc = 0

C4_Witness ==
    /\ Len(calls) = 1
    /\ IsSnowflake(calls[1])
    /\ calls[1].base_path = "missing.yaml"
    /\ calls[1].names = <<"M", "A">>
    /\ calls[1].status = "raised"

(***************************************************************************)
(* C5. No-table graceful path: when the loaded template is a non-empty     *)
(* mapping whose tables is absent or an empty sequence, assembly returns a *)
(* document equal to the template and does not raise, whatever was         *)
(* resolved.                                                               *)
(***************************************************************************)
C5_NoTableGraceful ==
    \A i \in 1..Len(calls) :
        (/\ IsGenerate(calls[i]) \/ IsSnowflake(calls[i])
         /\ File(calls[i].base_path).status = "ok"
         /\ NoTables(File(calls[i].base_path).doc)
         /\ IsSnowflake(calls[i]) =>
                Resolved(calls[i].names, calls[i].facts_path) # SeqV(<<>>))
        => /\ calls[i].status = "returned"
           /\ RetDoc(calls[i]) = File(calls[i].base_path).doc

C5_Witness ==
    /\ Len(calls) = 1
    /\ IsSnowflake(calls[1])
    /\ calls[1].base_path = "base_tables0.yaml"
    /\ calls[1].names = <<"A">>
    /\ "A" \in CatalogNames
    /\ calls[1].status = "returned"
    /\ calls[1].doc # 0

(***************************************************************************)
(* C6. Order preservation: when every requested name has a record in the   *)
(* catalog, get_facts_by_names returns as many records as names, the i-th  *)
(* named as the i-th requested name, whatever the catalog's order.         *)
(***************************************************************************)
C6_OrderPreserved ==
    \A i \in 1..Len(calls) :
        (OnCatalog(calls[i]) /\ \A k \in 1..Len(calls[i].names) :
                                    calls[i].names[k] \in CatalogNames)
        => /\ calls[i].status = "returned"
           /\ Len(calls[i].ret.items) = Len(calls[i].names)
           /\ \A k \in 1..Len(calls[i].names) :
                 /\ IsRecord(calls[i].ret.items[k])
                 /\ calls[i].ret.items[k].m["name"] = Scalar(calls[i].names[k])

C6_Witness ==
    /\ Len(calls) = 1 /\ OnCatalog(calls[1])
    /\ catalog = <<FactRec("A", "e1"), FactRec("B", "e3")>>
    /\ calls[1].names = <<"B", "A">>
    /\ NamesOf(calls[1].ret) = <<"B", "A">>

(***************************************************************************)
(* C7. Skip-on-missing: the names of the records get_facts_by_names        *)
(* returns are the requested names with those absent from the catalog      *)
(* removed, order and multiplicity kept; an absent name neither aborts the *)
(* call nor hides a later name.                                            *)
(***************************************************************************)
C7_SkipOnMissing ==
    \A i \in 1..Len(calls) :
        OnCatalog(calls[i])
        => /\ calls[i].status = "returned"
           /\ \A k \in 1..Len(calls[i].ret.items) : IsRecord(calls[i].ret.items[k])
           /\ NamesOf(calls[i].ret) = Keep(calls[i].names, CatalogNames)

C7_Witness ==
    /\ Len(calls) = 1 /\ OnCatalog(calls[1])
    /\ calls[1].names = <<"M", "A">>
    /\ "A" \in CatalogNames
    /\ NamesOf(calls[1].ret) = <<"A">>

(***************************************************************************)
(* C8. Duplicates and length bound: the result is never longer than the    *)
(* request, and a name requested k times that has a record contributes     *)
(* exactly k entries.                                                      *)
(***************************************************************************)
C8_DuplicatesKept ==
    \A i \in 1..Len(calls) :
        OnCatalog(calls[i])
        => /\ Len(calls[i].ret.items) <= Len(calls[i].names)
           /\ \A n \in CatalogNames :
                 Cardinality({k \in 1..Len(calls[i].ret.items) :
                                 calls[i].ret.items[k].kind = "map"
                                 /\ calls[i].ret.items[k].m["name"] = Scalar(n)})
                 = Count(calls[i].names, n)

C8_Witness ==
    /\ Len(calls) = 1 /\ OnCatalog(calls[1])
    /\ calls[1].names = <<"A", "A">>
    /\ "A" \in CatalogNames
    /\ Len(calls[1].ret.items) = 2

(***************************************************************************)
(* C9. First match wins: every returned record is the earliest record of   *)
(* the catalog that carries its name; a later duplicate is never returned. *)
(***************************************************************************)
C9_FirstMatchWins ==
    \A i \in 1..Len(calls) :
        OnCatalog(calls[i])
        => calls[i].ret = SeqV(Expected(calls[i].names))

C9_Witness ==
    /\ Len(calls) = 1 /\ OnCatalog(calls[1])
    /\ catalog = <<FactRec("A", "e2"), FactRec("A", "e1")>>
    /\ calls[1].names = <<"A">>
    /\ calls[1].ret = SeqV(<<FactRec("A", "e2")>>)

(***************************************************************************)
(* C10. Shape tolerance: resolving against the bare list and against the   *)
(* mapping {facts: list} of the same records gives the same result.        *)
(***************************************************************************)
C10_ShapeTolerance ==
    \A i \in 1..Len(calls) :
        IsGetFacts(calls[i]) =>
            /\ calls[i].facts_path = "facts.yaml"
                  => calls[i].ret = Resolved(calls[i].names, "facts_wrapped.yaml")
            /\ calls[i].facts_path = "facts_wrapped.yaml"
                  => calls[i].ret = Resolved(calls[i].names, "facts.yaml")

C10_Witness ==
    /\ Len(calls) = 1 /\ IsGetFacts(calls[1])
    /\ calls[1].facts_path = "facts_wrapped.yaml"
    /\ catalog = <<Scalar("A"), FactRec("A", "e1")>>
    /\ calls[1].names = <<"A", "M">>
    /\ calls[1].ret = SeqV(<<FactRec("A", "e1")>>)

(***************************************************************************)
(* Vocabulary of the loader and staging properties.                        *)
(***************************************************************************)
IsLoadYaml(c) == c.fn = "load_yaml"
IsLoadFacts(c) == c.fn = "load_facts_from_yaml"
IsExtract(c) == c.fn = "extract_fact_names_from_dataframe"
IsUpload(c) == c.fn = "upload_to_snowflake_stage"
IsSaveAndUpload(c) == c.fn = "save_and_upload_to_stage"

\* The catalog source {facts: record} holds a single record.
SingleRecord == catalog # <<>> /\ IsRecord(catalog[1])

\* The source gives no list: it cannot be read or parsed, or its document is
\* neither a sequence nor a mapping with a `facts` key.
NoList(path) ==
    \/ File(path).status # "ok"
    \/ /\ File(path).doc.kind # "seq"
       /\ ~(File(path).doc.kind = "map" /\ "facts" \in DOMAIN File(path).doc.m)

\* A cell that holds no value: null, not-a-number, no such column.
IsMissing(cell) == cell.kind \in {"none", "nan", "absent"}

\* A cell that holds a non-blank string.
NonBlank(cell) == cell.kind = "scalar" /\ cell.v \notin {"", " "}

Trimmed(v) == IF v = " A " THEN "A" ELSE v

\* One trimmed identifier per non-blank row, in row order.
RECURSIVE ExpectedNames(_)
ExpectedNames(df) ==
    IF df = <<>> THEN <<>>
    ELSE (IF NonBlank(Head(df)) THEN <<Trimmed(Head(df).v)>> ELSE <<>>)
         \o ExpectedNames(Tail(df))

\* The transfer produced a row whose field 6 (the seventh) is 'UPLOADED'.
Uploaded(row) ==
    row.kind = "row" /\ Len(row.cols) >= 7 /\ row.cols[7] = "UPLOADED"

\* The transfer commands a call issued.
PutsOf(c) == {k \in 1..Len(c.wrote) : c.wrote[k].op = "put"}

\* The environment with every save and upload step succeeding.
Sound(env) ==
    [env EXCEPT !.saveOk = TRUE, !.cursorOk = TRUE, !.putOk = TRUE,
                !.fetchOk = TRUE, !.closeOk = TRUE, !.row = PutRow("UPLOADED")]

(***************************************************************************)
(* C11. Singleton promotion: when the catalog source is the mapping        *)
(* {facts: record}, load_facts_from_yaml returns the one-element list      *)
(* holding that record, and get_facts_by_names returns that record once    *)
(* for every time its name is requested.                                   *)
(***************************************************************************)
C11_SingletonPromotion ==
    \A i \in 1..Len(calls) :
        /\ (IsLoadFacts(calls[i]) /\ calls[i].path = "facts_single.yaml" /\ SingleRecord)
              => /\ calls[i].status = "returned"
                 /\ calls[i].ret = SeqV(<<catalog[1]>>)
        /\ (IsGetFacts(calls[i]) /\ calls[i].facts_path = "facts_single.yaml"
                /\ SingleRecord)
              => /\ calls[i].status = "returned"
                 /\ Len(calls[i].ret.items) = Count(calls[i].names, catalog[1].m["name"].v)
                 /\ \A k \in 1..Len(calls[i].ret.items) : calls[i].ret.items[k] = catalog[1]

C11_Witness ==
    /\ Len(calls) = 1 /\ IsGetFacts(calls[1])
    /\ calls[1].facts_path = "facts_single.yaml"
    /\ catalog = <<FactRec("B", "e3"), FactRec("A", "e1")>>
    /\ calls[1].names = <<"M", "B">>
    /\ calls[1].ret = SeqV(<<FactRec("B", "e3")>>)

(***************************************************************************)
(* C12. Catalog loading is total: load_facts_from_yaml returns a sequence  *)
(* and never raises, whatever reading the source gives (missing, parse     *)
(* failure, any other read error, empty document, scalar, mapping without  *)
(* `facts`); the sequence is empty whenever the source gives no list.      *)
(***************************************************************************)
C12_CatalogLoadTotal ==
    \A i \in 1..Len(calls) :
        IsLoadFacts(calls[i])
        => /\ calls[i].status = "returned" /\ calls[i].exc = "none"
           /\ calls[i].ret.kind = "seq"
           /\ NoList(calls[i].path) => calls[i].ret = SeqV(<<>>)

C12_Witness ==
    /\ Len(calls) = 1 /\ IsLoadFacts(calls[1])
    /\ calls[1].path = "unreadable.yaml"
    /\ calls[1].status = "returned"
    /\ calls[1].ret = SeqV(<<>>)

(***************************************************************************)
(* C13. load_yaml returns the empty mapping, and does not raise, when the  *)
(* file is missing and when its content fails to parse.                    *)
(***************************************************************************)
C13_MissingOrBadGivesEmpty ==
    \A i \in 1..Len(calls) :
        (IsLoadYaml(calls[i]) /\ File(calls[i].path).status \in {"missing", "bad"})
        => /\ calls[i].status = "returned" /\ calls[i].exc = "none"
           /\ calls[i].ret = EmptyMap

C13_Witness ==
    /\ Len(calls) = 1 /\ IsLoadYaml(calls[1])
    /\ calls[1].path = "bad.yaml"
    /\ calls[1].status = "returned"
    /\ calls[1].ret = EmptyMap

(***************************************************************************)
(* C14. Document loading never raises: every call of load_yaml returns a   *)
(* value, also for a path that exists but cannot be opened or read.  The   *)
(* code catches YAMLError and FileNotFoundError only.                      *)
(***************************************************************************)
C14_LoadNeverRaises ==
    \A i \in 1..Len(calls) :
        IsLoadYaml(calls[i]) => calls[i].status = "returned"

(***************************************************************************)
(* C15. Query-to-names extraction: extract_fact_names_from_dataframe       *)
(* returns, in row order, the trimmed value of every row whose cell is a   *)
(* non-blank string and nothing for a row whose cell is missing (null,     *)
(* not-a-number, column absent), empty or blank.  The code takes str() of  *)
(* the cell first, so null and not-a-number become names.                  *)
(***************************************************************************)
C15_Extraction ==
    \A i \in 1..Len(calls) :
        IsExtract(calls[i]) => calls[i].ret = ExpectedNames(calls[i].df)

(***************************************************************************)
(* C16. Best-effort side effects: a run of                                 *)
(* generate_semantic_model_from_snowflake ends the same way and returns    *)
(* the same value as the run with the same arguments and query result in   *)
(* which the local save and every step of the upload succeed; a returned   *)
(* value is the assembled document (or its text).                          *)
(***************************************************************************)
C16_BestEffortSideEffects ==
    \A i \in 1..Len(calls) :
        IsSnowflake(calls[i])
        => /\ calls[i].status =
                 generate_semantic_model_from_snowflake(<<>>, calls[i].args,
                                                        Sound(calls[i].env)).status
           /\ calls[i].ret =
                 generate_semantic_model_from_snowflake(<<>>, calls[i].args,
                                                        Sound(calls[i].env)).ret
           /\ (calls[i].status = "returned" /\ calls[i].doc # 0)
                 => RetDoc(calls[i]) = Val(heap, heap[calls[i].doc])

C16_Witness ==
    /\ Len(calls) = 1 /\ IsSnowflake(calls[1])
    /\ calls[1].args.stage_name = <<"stage">>
    /\ calls[1].args.output_path = "out.yaml"
    /\ ~calls[1].env.saveOk /\ ~calls[1].env.cursorOk
    /\ calls[1].status = "returned"
    /\ HasFirstTable(calls[1].ret)
    /\ FirstTableFacts(calls[1].ret) = SeqV(<<FactRec("A", "e1")>>)

(***************************************************************************)
(* C17. Staging status decision: upload_to_snowflake_stage returns True    *)
(* only for a result row whose field 6 is exactly 'UPLOADED'; when the     *)
(* transfer ran and the cursor closed, it returns True for such a row and  *)
(* False for a missing row, a row too short to have the field, and any     *)
(* other status.                                                           *)
(***************************************************************************)
C17_StatusDecision ==
    \A i \in 1..Len(calls) :
        IsUpload(calls[i])
        => /\ (calls[i].status = "returned" /\ calls[i].ret)
                 => (calls[i].env.putOk /\ calls[i].env.fetchOk
                        /\ Uploaded(calls[i].env.row))
           /\ (calls[i].env.cursorOk /\ calls[i].env.putOk /\ calls[i].env.fetchOk
                  /\ calls[i].env.closeOk)
                 => /\ calls[i].status = "returned"
                    /\ calls[i].ret = Uploaded(calls[i].env.row)

C17_Witness ==
    /\ Len(calls) = 1 /\ IsUpload(calls[1])
    /\ calls[1].env.cursorOk /\ calls[1].env.putOk /\ calls[1].env.fetchOk
    /\ calls[1].env.closeOk
    /\ calls[1].env.row = RowV(<<"model.yaml", "model.yaml.gz">>)
    /\ calls[1].status = "returned"
    /\ calls[1].ret = FALSE

(***************************************************************************)
(* C18. Staging failures are reported, not propagated: every call of       *)
(* upload_to_snowflake_stage returns, and returns False when obtaining the *)
(* cursor, executing the transfer, fetching the result or closing the      *)
(* cursor fails.  In the code a failure of conn.cursor() leaves `cursor`   *)
(* unbound for the finally block, and cursor.close() runs outside the      *)
(* try's except clause.                                                    *)
(***************************************************************************)
C18_StagingNeverRaises ==
    \A i \in 1..Len(calls) :
        IsUpload(calls[i])
        => /\ calls[i].status = "returned"
           /\ ~(calls[i].env.cursorOk /\ calls[i].env.putOk /\ calls[i].env.fetchOk
                  /\ calls[i].env.closeOk)
                 => calls[i].ret = FALSE

(***************************************************************************)
(* C19. Staging destination normalization: the destination of every        *)
(* transfer command begins with the marker "@"; it is the supplied         *)
(* destination when that begins with the marker and the marker followed by *)
(* the supplied destination otherwise; normalizing it again changes        *)
(* nothing.                                                                *)
(***************************************************************************)
C19_StageNormalized ==
    \A i \in 1..Len(calls) :
        (IsUpload(calls[i]) \/ IsSaveAndUpload(calls[i]))
        => \A k \in PutsOf(calls[i]) :
              /\ calls[i].wrote[k].stage # <<>>
              /\ Head(calls[i].wrote[k].stage) = "@"
              /\ calls[i].wrote[k].stage =
                    IF calls[i].stage_name # <<>> /\ Head(calls[i].stage_name) = "@"
                    THEN calls[i].stage_name
                    ELSE <<"@">> \o calls[i].stage_name
              /\ NormStage(calls[i].wrote[k].stage) = calls[i].wrote[k].stage

C19_Witness ==
    /\ Len(calls) = 1 /\ IsUpload(calls[1])
    /\ calls[1].stage_name = <<"stage", "/">>
    /\ \E k \in PutsOf(calls[1]) : calls[1].wrote[k].stage = <<"@", "stage", "/">>

(***************************************************************************)
(* C20. Staged name matches returned name: whenever                        *)
(* save_and_upload_to_stage returns a filename, the call issued a transfer *)
(* and every transfer it issued stores the artifact under exactly that     *)
(* name.  The transfer command of the code names only the local file, so   *)
(* with local_output_path given the artifact is staged under that file's   *)
(* name.                                                                   *)
(***************************************************************************)
C20_StagedNameIsReturned ==
    \A i \in 1..Len(calls) :
        (IsSaveAndUpload(calls[i]) /\ calls[i].status = "returned")
        => /\ PutsOf(calls[i]) # {}
           /\ \A k \in PutsOf(calls[i]) : calls[i].wrote[k].staged = calls[i].ret[1]

(***************************************************************************)
(* Vocabulary of the helper, connection and listing properties.            *)
(***************************************************************************)
IsUniqueName(c) == c.fn = "generate_unique_filename"
IsSerialize(c) == c.fn = "convert_to_yaml_string"
IsSaveFile(c) == c.fn = "save_yaml_file"
IsSend(c) == c.fn = "send_message"
IsList(c) == c.fn = "list_available_facts"

\* The indices of a call's side effects of one kind.
OpsOf(c, op) == {k \in 1..Len(c.wrote) : c.wrote[k].op = op}

\* Position of a key in a document of the model.
RECURSIVE PosIn(_, _)
PosIn(order, k) == IF Head(order) = k THEN 1 ELSE 1 + PosIn(Tail(order), k)

\* Every mapping of the emitted tree has its keys in document order.
RECURSIVE Ordered(_)
Ordered(e) ==
    CASE e.kind = "mapping" ->
            /\ \A i, j \in 1..Len(e.pairs) :
                  i < j => PosIn(KeyOrder, e.pairs[i].key) < PosIn(KeyOrder, e.pairs[j].key)
            /\ \A i \in 1..Len(e.pairs) : Ordered(e.pairs[i].val)
      [] e.kind = "sequence" -> \A i \in 1..Len(e.items) : Ordered(e.items[i])
      [] OTHER -> TRUE

\* The document an emitted tree parses back to.
RECURSIVE Parsed(_)
Parsed(e) ==
    CASE e.kind = "mapping" ->
            MapV([k \in {e.pairs[i].key : i \in 1..Len(e.pairs)} |->
                    Parsed(e.pairs[CHOOSE i \in 1..Len(e.pairs) : e.pairs[i].key = k].val)])
      [] e.kind = "sequence" -> SeqV([i \in 1..Len(e.items) |-> Parsed(e.items[i])])
      [] OTHER -> e

\* The items of an optional list.
ItemsOf(l) == IF l.kind = "seq" THEN l.items ELSE <<>>

\* The number of facts in the first table of a document.
FactCount(v) ==
    IF FirstTableFacts(v).kind = "seq" THEN Len(FirstTableFacts(v).items) ELSE 0

\* The names a Snowflake run extracts and the early exits of the run.
NamesOfRun(c) == extract_fact_names_from_dataframe(c.env.df)

NothingResolved(c) == Resolved(NamesOfRun(c), c.args.facts_path) = SeqV(<<>>)

TemplateEmpty(c) ==
    \/ File(c.args.base_path).status \in {"missing", "bad"}
    \/ File(c.args.base_path).status = "ok" /\ EmptyLoad(File(c.args.base_path).doc)

(***************************************************************************)
(* C21. Unique-name generator: the name is the base, the local wall-clock  *)
(* second of the call and the extension; two calls with the same base and  *)
(* extension made at least one second apart return distinct names, two     *)
(* calls in the same second the same name.  The local clock of the code    *)
(* can be set back between the calls.                                      *)
(***************************************************************************)
C21_UniqueNames ==
    /\ \A i \in 1..Len(calls) :
          IsUniqueName(calls[i])
          => calls[i].ret = FileName(calls[i].base_name,
                                     <<LocalTime(calls[i].zone, calls[i].at)>>,
                                     calls[i].extension)
    /\ (Len(calls) = 2 /\ IsUniqueName(calls[1]) /\ IsUniqueName(calls[2])
            /\ calls[1].base_name = calls[2].base_name)
          => /\ calls[2].at - calls[1].at >= 1 => calls[1].ret # calls[2].ret
             /\ calls[2].at = calls[1].at => calls[1].ret = calls[2].ret

(***************************************************************************)
(* C22. Output path triggers persistence: whenever                         *)
(* generate_dynamic_semantic_model is called with a non-empty output_path  *)
(* and returns a document, a write of that document to output_path has     *)
(* been attempted, whatever the names resolve to.  The code returns before *)
(* the save when no name is resolved.                                      *)
(***************************************************************************)
C22_OutputPathPersists ==
    \A i \in 1..Len(calls) :
        (IsGenerate(calls[i]) /\ calls[i].status = "returned"
            /\ calls[i].output_path # "")
        => \E k \in OpsOf(calls[i], "write") :
              /\ calls[i].wrote[k].path = AsPath(calls[i].output_path)
              /\ calls[i].wrote[k].data = calls[i].ret

(***************************************************************************)
(* C23. Return form: every returning call of                               *)
(* generate_semantic_model_from_snowflake returns a text string when       *)
(* return_yaml_string is True and a mapping when it is False, on every     *)
(* return path.  The early returns of the code give {} in both cases.      *)
(***************************************************************************)
C23_ReturnForm ==
    \A i \in 1..Len(calls) :
        (IsSnowflake(calls[i]) /\ calls[i].status = "returned")
        => IF calls[i].args.return_yaml_string
           THEN calls[i].ret.kind \in {"text", "scalar"}
           ELSE calls[i].ret.kind = "map"

(***************************************************************************)
(* C24. Serialization gateway never raises: convert_to_yaml_string returns *)
(* the text of the document, and the empty string when serialization       *)
(* fails; save_yaml_file returns normally, having attempted one write,     *)
(* also when the write fails; what either emits parses back to the         *)
(* document and has the keys of every mapping in the document's order, not *)
(* alphabetized.                                                           *)
(***************************************************************************)
C24_SerializationGateway ==
    \A i \in 1..Len(calls) :
        /\ IsSerialize(calls[i])
              => /\ calls[i].status = "returned" /\ calls[i].exc = "none"
                 /\ ~calls[i].ok => calls[i].ret = Scalar("")
                 /\ calls[i].ok => /\ calls[i].ret.kind = "text"
                                   /\ calls[i].ret.doc = calls[i].data
                                   /\ Parsed(calls[i].ret.emitted) = calls[i].data
                                   /\ Ordered(calls[i].ret.emitted)
        /\ IsSaveFile(calls[i])
              => /\ calls[i].status = "returned" /\ calls[i].exc = "none"
                 /\ Len(calls[i].wrote) = 1
                 /\ calls[i].wrote[1].op = "write"
                 /\ calls[i].wrote[1].path = AsPath(calls[i].output_path)
                 /\ calls[i].wrote[1].ok = calls[i].ok
                 /\ Parsed(calls[i].wrote[1].emitted) = calls[i].data
                 /\ Ordered(calls[i].wrote[1].emitted)

C24_Witness ==
    /\ Len(calls) = 1 /\ IsSerialize(calls[1])
    /\ calls[1].ok
    /\ calls[1].data = File("base.yaml").doc
    /\ calls[1].ret.emitted.pairs[1].key = "name"
    /\ calls[1].ret.emitted.pairs[2].key = "tables"
    /\ calls[1].ret.emitted.pairs[2].val.items[1].pairs[2].key = "facts"

(***************************************************************************)
(* C25. Connection release: in every run of                                *)
(* generate_semantic_model_from_snowflake that opened the connection, the  *)
(* connection is closed exactly once and closing it is the last thing the  *)
(* run does, on every exit path; a run that opened none closes none.       *)
(***************************************************************************)
C25_ConnectionReleased ==
    \A i \in 1..Len(calls) :
        IsSnowflake(calls[i])
        => IF OpsOf(calls[i], "connect") # {}
           THEN /\ OpsOf(calls[i], "connect") = {1}
                /\ OpsOf(calls[i], "close") = {Len(calls[i].wrote)}
           ELSE OpsOf(calls[i], "close") = {}

C25_Witness ==
    /\ Len(calls) = 1 /\ IsSnowflake(calls[1])
    /\ ~calls[1].env.queryOk
    /\ calls[1].args.warehouse = "wh"
    /\ calls[1].status = "raised" /\ calls[1].exc = "DatabaseError"
    /\ calls[1].wrote[Len(calls[1].wrote)].op = "close"

(***************************************************************************)
(* C26. Cursor release: every cursor a run obtains from the connection is  *)
(* closed before the run obtains another or ends, also when executing its  *)
(* statement fails.  The warehouse cursor of the code is closed only after *)
(* a successful execute.                                                   *)
(***************************************************************************)
C26_CursorsReleased ==
    \A i \in 1..Len(calls) :
        IsSnowflake(calls[i])
        => \A k \in OpsOf(calls[i], "cursor") :
              \E j \in OpsOf(calls[i], "cursor_close") :
                  /\ k < j
                  /\ \A n \in OpsOf(calls[i], "cursor") : ~(k < n /\ n < j)

(***************************************************************************)
(* C27. No side output on early exit: a run of                             *)
(* generate_semantic_model_from_snowflake whose query returns no rows,     *)
(* gives no name, resolves no fact, or whose template loads empty, writes  *)
(* no file and issues no transfer, whatever output_path and stage_name     *)
(* are; a run writes or transfers only after assembling the model, and     *)
(* every transfer comes after a write.                                     *)
(***************************************************************************)
C27_NoSideOutputOnEarlyExit ==
    \A i \in 1..Len(calls) :
        IsSnowflake(calls[i])
        => /\ (NothingResolved(calls[i]) \/ TemplateEmpty(calls[i]))
                 => OpsOf(calls[i], "write") \cup OpsOf(calls[i], "put") = {}
           /\ OpsOf(calls[i], "write") \cup OpsOf(calls[i], "put") # {}
                 => calls[i].doc # 0
           /\ \A k \in OpsOf(calls[i], "put") :
                 \E j \in OpsOf(calls[i], "write") : j < k

C27_Witness ==
    /\ Len(calls) = 1 /\ IsSnowflake(calls[1])
    /\ calls[1].args.output_path = "out.yaml"
    /\ calls[1].args.stage_name = <<"stage">>
    /\ calls[1].env.df = <<Scalar("M")>>
    /\ calls[1].status = "returned" /\ calls[1].ret = EmptyMap
    /\ OpsOf(calls[1], "connect") = {1}
    /\ OpsOf(calls[1], "write") = {}

(***************************************************************************)
(* C28. Catalog listing round-trip: resolving a prefix of the list         *)
(* list_available_facts returns, against the same catalog, gives one       *)
(* record per listed name, in order, each named as listed; and a model     *)
(* generated from such a prefix, for a template with a first table, has as *)
(* many facts as names were passed.  With the empty prefix the code        *)
(* returns the template's own facts.                                       *)
(***************************************************************************)
C28_ListingRoundTrip ==
    (Len(calls) = 2 /\ IsList(calls[1]))
    => /\ IsGetFacts(calls[2])
             => /\ calls[2].status = "returned"
                /\ Len(calls[2].ret.items) = Len(calls[2].names)
                /\ \A k \in 1..Len(calls[2].names) :
                      /\ IsRecord(calls[2].ret.items[k])
                      /\ calls[2].ret.items[k].m["name"] = Scalar(calls[2].names[k])
       /\ (IsGenerate(calls[2]) /\ calls[2].status = "returned"
              /\ HasFirstTable(calls[2].tmpl))
             => FactCount(calls[2].ret) = Len(calls[2].names)

(***************************************************************************)
(* C29. Authentication selection: a run with neither password nor token    *)
(* raises ValueError and attempts no connection; otherwise the credential  *)
(* of the one connection attempt is the token when a token is given and    *)
(* the password when not.                                                  *)
(***************************************************************************)
C29_AuthenticationSelection ==
    \A i \in 1..Len(calls) :
        IsSnowflake(calls[i])
        => /\ (calls[i].args.token = "" /\ calls[i].args.password = "")
                 => /\ calls[i].status = "raised" /\ calls[i].exc = "ValueError"
                    /\ calls[i].wrote = <<>>
           /\ (calls[i].args.token # "" \/ calls[i].args.password # "")
                 => /\ Cardinality(OpsOf(calls[i], "connect")
                                    \cup OpsOf(calls[i], "connect_failed")) = 1
                    /\ calls[i].wrote[1].op \in {"connect", "connect_failed"}
                    /\ calls[i].wrote[1].password =
                          IF calls[i].args.token # "" THEN calls[i].args.token
                          ELSE calls[i].args.password

C29_Witness ==
    /\ Len(calls) = 1 /\ IsSnowflake(calls[1])
    /\ calls[1].args.token = "tok" /\ calls[1].args.password = "pw"
    /\ calls[1].wrote[1].op = "connect"
    /\ calls[1].wrote[1].password = "tok"

(***************************************************************************)
(* C30. Message request construction: send_message with neither            *)
(* semantic_model nor semantic_model_file raises ValueError and sends no   *)
(* request; otherwise it sends one request whose payload carries exactly   *)
(* one of the two model fields (semantic_model_file when both are given)   *)
(* and whose messages are the conversation history in order followed by    *)
(* the user's question; the caller's history list is as it was.            *)
(***************************************************************************)
C30_MessageRequest ==
    \A i \in 1..Len(calls) :
        IsSend(calls[i])
        => /\ (calls[i].semantic_model = "" /\ calls[i].semantic_model_file = "")
                 => /\ calls[i].status = "raised" /\ calls[i].exc = "ValueError"
                    /\ calls[i].wrote = <<>>
           /\ calls[i].semantic_model_file # ""
                 => /\ Len(calls[i].wrote) = 1 /\ calls[i].wrote[1].op = "post"
                    /\ "semantic_model_file" \in DOMAIN calls[i].wrote[1].payload
                    /\ "semantic_model" \notin DOMAIN calls[i].wrote[1].payload
                    /\ calls[i].wrote[1].payload.semantic_model_file =
                          calls[i].semantic_model_file
           /\ (calls[i].semantic_model_file = "" /\ calls[i].semantic_model # "")
                 => /\ Len(calls[i].wrote) = 1 /\ calls[i].wrote[1].op = "post"
                    /\ "semantic_model" \in DOMAIN calls[i].wrote[1].payload
                    /\ "semantic_model_file" \notin DOMAIN calls[i].wrote[1].payload
                    /\ calls[i].wrote[1].payload.semantic_model = calls[i].semantic_model
           /\ \A k \in OpsOf(calls[i], "post") :
                 calls[i].wrote[k].payload.messages =
                    ItemsOf(calls[i].conversation_history)
                       \o <<UserMessage(calls[i].question)>>
           /\ calls[i].history_after = calls[i].conversation_history

C30_Witness ==
    /\ Len(calls) = 1 /\ IsSend(calls[1])
    /\ calls[1].semantic_model # "" /\ calls[1].semantic_model_file # ""
    /\ calls[1].conversation_history =
          SeqV(<<UserMessage("q0"), [role |-> "analyst", text |-> "a0"]>>)
    /\ calls[1].status = "returned"
    /\ Len(calls[1].wrote[1].payload.messages) = 3
    /\ calls[1].wrote[1].payload.messages[3] = UserMessage("q1")

====
